---- MODULE Spec2Model ----
(***************************************************************************)
(* Model of vk_bot.py (VKAutoMonitorBot): the interactive message loop of  *)
(* run() on the main thread, the price monitor of run_monitoring_loop() on *)
(* a daemon thread, the in-memory store user_data they share without any   *)
(* lock, and the JSON file save_user_data() writes.                        *)
(*                                                                         *)
(* Python dicts are modelled as sequences in insertion order (the order a  *)
(* dict iterates in); a dict iterator is an index plus the size the dict   *)
(* had when the iterator was made, and its next() raises RuntimeError when *)
(* the size differs.  None is the empty tuple, a present value v is <<v>>. *)
(***************************************************************************)
EXTENDS Integers, Sequences, FiniteSets, TLC

VARIABLES user_data,    \* self.user_data: sequence of user records
          user_states,  \* self.user_states: user id -> dialog state
          file,         \* vk_user_data.json on disk
          clock,        \* datetime.now()
          pc,           \* position of each thread
          mon,          \* locals of monitor_prices
          hnd,          \* locals of the message handler in progress
          sv,           \* locals of save_user_data / json.dump, per thread
          outbox,       \* price-change notifications handed to send_message
          prev,         \* history variable: last snapshot price seen per listing
          msgs,         \* number of events run() has taken from the long poll
          stores,       \* history variable: every value user_data has had
          hist          \* history variable: the last event run() took and its outcome

vars == <<user_data, user_states, file, clock, pc, mon, hnd, sv, outbox, prev, msgs,
          stores, hist>>

----------------------------------------------------------------------------
\* Bounds of the model

MaxClock == 2
MaxCars == 2
MaxMsgs == 3
MaxPollClock == 3
MaxPollMsgs == 1
MaxDlgMsgs == 6
MaxAddMsgs == 4
MaxPersistMsgs == 4
MaxTrackMsgs == 3
MaxTrackClock == 2
MaxZeroClock == 4

\* Program constants

STATE_MAIN_MENU == "main_menu"
STATE_CHOOSING_CITY == "choosing_city"
STATE_ADDING_URL == "adding_url"
STATE_SETTING_FILTERS == "setting_filters"
STATE_PRICE_MIN == "price_min"
STATE_PRICE_MAX == "price_max"
STATE_YEAR_MIN == "year_min"
STATE_YEAR_MAX == "year_max"
STATE_CONDITION == "condition"
STATE_DOCUMENTS == "documents"
States == {STATE_MAIN_MENU, STATE_CHOOSING_CITY, STATE_ADDING_URL,
           STATE_SETTING_FILTERS, STATE_PRICE_MIN, STATE_PRICE_MAX,
           STATE_YEAR_MIN, STATE_YEAR_MAX, STATE_CONDITION, STATE_DOCUMENTS}
DefaultThreshold == 5

\* Inputs

Users == {1, 2}
UrlA == "https://auto.ru/a"
UrlB == "https://drom.ru/b"
Urls == {UrlA, UrlB}
BadText == "hello"
Prices == {0, 900000, 950000, 960000, 1000000, 1040000}
ConcPrices == {900000, 1000000}
Years == {2015}

\* Button labels (ASCII stand-ins for the labels of the keyboards)
BACK == "Back"
BTN_CITY == "Choose city"
BTN_ADD == "Add listing"
BTN_LIST == "My listings"
BTN_SETTINGS == "Settings"
BTN_HELP == "Help"
BTN_OTHER_CITY == "Other city"
CityMoscow == "Moscow"
BTN_FILTERS == "Filters"
BTN_PRICE == "Price"
BTN_YEAR == "Year"
BTN_CONDITION == "Condition"
BTN_DOCUMENTS == "Documents"
BTN_CLEAR == "Clear filters"
CondNew == "New"
DocsWith == "With documents"
START == "start"
EmptyText == ""

\* datetime.now().year
CurrentYear == 2026


Messages == {BACK, BTN_CITY, BTN_ADD, BTN_OTHER_CITY, CityMoscow, UrlA, UrlB}
MenuMessages == {BACK, BTN_CITY, BTN_ADD}

\* what a user sends while the city keyboard is shown
CityInputs == {BACK, BTN_OTHER_CITY, CityMoscow, EmptyText}

\* what a user sends while the other keyboards are shown
MenuInputs == {BACK, START, BTN_CITY, BTN_ADD, BTN_LIST, BTN_FILTERS, BTN_SETTINGS,
               BTN_HELP, CityMoscow, UrlA, UrlB, BadText}
FilterMenuInputs == {BACK, START, BTN_PRICE, BTN_YEAR, BTN_CONDITION, BTN_DOCUMENTS,
                     BTN_CLEAR, BadText}
PriceInputs == {BACK, "0", "500000", "1000000", "1 000 000", "-5", "abc"}
YearInputs == {BACK, "0", "1900", "2026", "1899", "2027", "-5", "abc", "1 000 000"}
ConditionInputs == {BACK, CondNew, BadText}
DocumentsInputs == {BACK, DocsWith, BadText}

Inputs(state) ==
  IF state = STATE_CHOOSING_CITY THEN CityInputs
  ELSE IF state = STATE_SETTING_FILTERS THEN FilterMenuInputs
  ELSE IF state \in {STATE_PRICE_MIN, STATE_PRICE_MAX} THEN PriceInputs
  ELSE IF state \in {STATE_YEAR_MIN, STATE_YEAR_MAX} THEN YearInputs
  ELSE IF state = STATE_CONDITION THEN ConditionInputs
  ELSE IF state = STATE_DOCUMENTS THEN DocumentsInputs
  ELSE MenuInputs

\* every text of the dialog but the URLs
DialogMessages ==
  (MenuInputs \ Urls) \cup CityInputs \cup FilterMenuInputs \cup PriceInputs
    \cup YearInputs \cup ConditionInputs \cup DocumentsInputs

Threads == {"main", "monitor"}

None == <<>>
Some(v) == <<v>>
\* Python truthiness of an optional number / an optional string
Truthy(o) == o # None /\ o[1] # 0
TruthyStr(o) == o # None /\ o[1] # ""

Abs(x) == IF x < 0 THEN -x ELSE x

\* value.replace(' ', '').replace(',', '')  (lines 482, 501)
StripSeparators(text) == IF text = "1 000 000" THEN "1000000" ELSE text

\* int(text): Some(n), or None for ValueError
ParseInt(text) ==
  IF text = "0" THEN Some(0)
  ELSE IF text = "500000" THEN Some(500000)
  ELSE IF text = "1000000" THEN Some(1000000)
  ELSE IF text = "-5" THEN Some(-5)
  ELSE IF text = "1899" THEN Some(1899)
  ELSE IF text = "1900" THEN Some(1900)
  ELSE IF text = "2026" THEN Some(2026)
  ELSE IF text = "2027" THEN Some(2027)
  ELSE None
Last(s) == s[Len(s)]

----------------------------------------------------------------------------
\* The store

NoFilters ==
  [price_min |-> None, price_max |-> None, year_min |-> None,
   year_max |-> None, condition |-> None, documents |-> None]

DefaultUser(u) ==
  [id |-> u, city |-> None, monitored_cars |-> <<>>,
   filters |-> NoFilters, price_threshold |-> DefaultThreshold]

UserIdx(ud, u) ==
  IF \E i \in 1..Len(ud) : ud[i].id = u
  THEN CHOOSE i \in 1..Len(ud) : ud[i].id = u
  ELSE 0

\* get_user_data: creates the profile on first access
get_user_data(ud, u) ==
  IF UserIdx(ud, u) = 0 THEN Append(ud, DefaultUser(u)) ELSE ud

CarIdx(cars, url) ==
  IF \E i \in 1..Len(cars) : cars[i].url = url
  THEN CHOOSE i \in 1..Len(cars) : cars[i].url = url
  ELSE 0

\* mutant: the listing is created with an empty history
NewCarNoHistory(url, snap, now) ==
  [url |-> url, title |-> snap.title, price |-> snap.price,
   initial_price |-> snap.price, site |-> snap.site, year |-> snap.year,
   mileage |-> snap.mileage, location |-> snap.location,
   added_date |-> now, last_check |-> now, price_history |-> <<>>]

NewCar(url, snap, now) ==
  [url |-> url, title |-> snap.title, price |-> snap.price,
   initial_price |-> snap.price, site |-> snap.site, year |-> snap.year,
   mileage |-> snap.mileage, location |-> snap.location,
   added_date |-> now, last_check |-> now,
   price_history |-> <<[price |-> snap.price, date |-> now]>>]

\* mutant: the assignment replaces the user's dict of listings
AddListingOverwrites(ud, i, car) == [ud EXCEPT ![i].monitored_cars = <<car>>]

\* self.user_data[user_str_id]['monitored_cars'][url] = {...}  (line 386)
AddListing(ud, i, car) == [ud EXCEPT ![i].monitored_cars = Append(@, car)]

\* 'auto.ru' in url or 'drom.ru' in url
IsSupportedUrl(text) == text \in Urls

SiteOf(url) == IF url = UrlA THEN "auto.ru" ELSE "drom.ru"

\* the mileage the parser reads from a page
Mileage == 50000

Snapshots(url, P) ==
  { [title |-> url, price |-> p, site |-> SiteOf(url), year |-> y,
     mileage |-> Some(Mileage), location |-> Some(CityMoscow)] :
      p \in P, y \in {Some(yy) : yy \in Years} }

\* mutant: the lower price bound is exclusive
check_filtersStrictMin(car_data, filters) ==
  /\ ~(Truthy(filters.price_min) /\ car_data.price <= filters.price_min[1])
  /\ ~(Truthy(filters.price_max) /\ car_data.price > filters.price_max[1])
  /\ Truthy(car_data.year) =>
       /\ ~(Truthy(filters.year_min) /\ car_data.year[1] < filters.year_min[1])
       /\ ~(Truthy(filters.year_max) /\ car_data.year[1] > filters.year_max[1])

check_filters(car_data, filters) ==
  /\ ~(Truthy(filters.price_min) /\ car_data.price < filters.price_min[1])
  /\ ~(Truthy(filters.price_max) /\ car_data.price > filters.price_max[1])
  /\ Truthy(car_data.year) =>
       /\ ~(Truthy(filters.year_min) /\ car_data.year[1] < filters.year_min[1])
       /\ ~(Truthy(filters.year_max) /\ car_data.year[1] > filters.year_max[1])

\* abs((new - old) / old * 100) >= threshold, for old > 0
ThresholdReached(old, new, thr) == Abs(new - old) * 100 >= thr * old

\* mutant: the savings line is written for every change
NotificationAlwaysSavings(u, url, old, new) ==
  [user |-> u, url |-> url, old |-> old, new |-> new,
   direction |-> IF new < old THEN "decrease" ELSE "increase",
   savings |-> Some(old - new)]

Notification(u, url, old, new) ==
  [user |-> u, url |-> url, old |-> old, new |-> new,
   direction |-> IF new < old THEN "decrease" ELSE "increase",
   savings |-> IF new < old THEN Some(old - new) ELSE None]

----------------------------------------------------------------------------
\* The file

NoFile == [exists |-> FALSE, complete |-> FALSE, data |-> <<>>]

SeedCar == NewCar(UrlA, [title |-> UrlA, price |-> 1000000, site |-> "auto.ru",
                         year |-> Some(2015), mileage |-> Some(Mileage),
                         location |-> Some(CityMoscow)], 0)

SeedStore ==
  << [id |-> 1, city |-> Some(CityMoscow), monitored_cars |-> <<SeedCar>>,
      filters |-> NoFilters, price_threshold |-> DefaultThreshold] >>

SeedCarB == NewCar(UrlB, [title |-> UrlB, price |-> 0, site |-> "drom.ru",
                          year |-> Some(2015), mileage |-> Some(Mileage),
                          location |-> Some(CityMoscow)], 0)

SeedStore2 ==
  Append(SeedStore,
         [id |-> 2, city |-> Some(CityMoscow), monitored_cars |-> <<SeedCarB>>,
          filters |-> NoFilters, price_threshold |-> DefaultThreshold])

StoredFile(ud) == [exists |-> TRUE, complete |-> TRUE, data |-> ud]

\* stores of one user with a city, a listing and filters
FilterStore(f) == << [SeedStore[1] EXCEPT !.filters = f] >>
AddFilters ==
  { [NoFilters EXCEPT !.price_min = lo, !.price_max = hi, !.year_min = ylo] :
      lo \in {None, Some(950000), Some(1000000)},
      hi \in {None, Some(950000)},
      ylo \in {None, Some(2015), Some(2016)} }
InitAddFiles == { StoredFile(FilterStore(f)) : f \in AddFilters }

InitFiles == { NoFile, StoredFile(SeedStore) }
InitPollFiles == { StoredFile(SeedStore), StoredFile(SeedStore2) }

\* load_user_data
load_user_data(f) == IF f.exists THEN f.data ELSE <<>>

\* pre_history, repeat, at_start, polled and failed are history variables:
\* the history of the listing when its price was read, whether the snapshot
\* repeats that of the listing's previous poll, the listings tracked when the
\* pass began, and those whose fetch was attempted / failed in this pass;
\* undelivered: the listings whose notification send_message failed to
\* deliver in this pass; last_seen: the price the previous successful fetch
\* of the listing returned
MonIdle == [ui |-> 0, un |-> 0, ci |-> 0, cn |-> 0, new_price |-> 0,
            old_price |-> 0, pre_history |-> <<>>, delivered |-> TRUE,
            repeat |-> FALSE, at_start |-> {}, polled |-> {}, failed |-> {},
            undelivered |-> {}, last_seen |-> None]

Listings(ud) ==
  UNION { { <<ud[i].id, ud[i].monitored_cars[j].url>> :
              j \in 1..Len(ud[i].monitored_cars) } : i \in 1..Len(ud) }
\* no event taken yet.  again: the snapshot the filters refused when the
\* previous event was the same text of the same user; entry: the filters a
\* user had on entering the price or year flow
HistIdle == [user |-> 0, text |-> "", state |-> "", fetch |-> "none", snap |-> None,
             again |-> None, entry |-> [u \in Users |-> NoFilters]]
HndIdle == [user |-> 0, url |-> "", next_state |-> ""]
SvIdle == [ui |-> 0, un |-> 0, ci |-> 0, cn |-> 0, buf |-> <<>>,
           cur |-> <<>>, car |-> <<>>]

InitFrom(files) ==
  /\ file \in files
  /\ user_data = load_user_data(file)
  /\ user_states = [u \in Users |-> "absent"]
  /\ clock = 1
  /\ pc = [t \in Threads |-> "idle"]
  /\ mon = MonIdle
  /\ hnd = HndIdle
  /\ sv = [t \in Threads |-> SvIdle]
  /\ outbox = <<>>
  /\ prev = [u \in Users |-> [url \in Urls |-> None]]
  /\ msgs = 0
  /\ stores = {user_data}
  /\ hist = HistIdle

Init == InitFrom(InitFiles)
InitAdd == InitFrom(InitAddFiles)
InitPoll == InitFrom(InitPollFiles)

----------------------------------------------------------------------------
\* save_user_data (lines 63-66), run by either thread.  open(.., 'w')
\* truncates the file; json.dump(indent=2) walks the store with the pure
\* Python encoder, one dict entry at a time, into the file object's buffer;
\* leaving the with block flushes the buffer to the file.

SaveBegin == [SvIdle EXCEPT !.un = Len(user_data)]

\* the exception leaves save_user_data: the handler is abandoned and run()
\* logs it (line 842); in the monitor thread nothing catches it
Raise(t) == IF t = "main" THEN "idle" ELSE "dead"

AfterSave(t) == IF t = "main" THEN "finish" ELSE "idle"

SaveOpen(t) ==
  /\ pc[t] = "s_open"
  /\ file' = [exists |-> TRUE, complete |-> FALSE, data |-> <<>>]
  /\ sv' = [sv EXCEPT ![t] = SaveBegin]
  /\ pc' = [pc EXCEPT ![t] = "s_user"]
  /\ UNCHANGED <<user_data, user_states, clock, mon, hnd, outbox, prev, msgs, stores, hist>>

\* open() raises OSError
SaveOpenFail(t) ==
  /\ pc[t] = "s_open"
  /\ pc' = [pc EXCEPT ![t] = Raise(t)]
  /\ hnd' = IF t = "main" THEN HndIdle ELSE hnd
  /\ UNCHANGED <<user_data, user_states, file, clock, mon, sv, outbox, prev, msgs, stores, hist>>

\* RuntimeError: dictionary changed size during iteration, inside json.dump
SaveDumpError(t) ==
  /\ file' = [exists |-> TRUE, complete |-> FALSE, data |-> sv[t].buf]
  /\ pc' = [pc EXCEPT ![t] = Raise(t)]
  /\ hnd' = IF t = "main" THEN HndIdle ELSE hnd
  /\ sv' = [sv EXCEPT ![t] = SvIdle]
  /\ UNCHANGED <<user_data, user_states, clock, mon, outbox, prev, msgs, stores, hist>>

\* the dump is complete and the with block is left: the buffer reaches the file
SaveClose(t) ==
  /\ file' = [exists |-> TRUE, complete |-> TRUE, data |-> sv[t].buf]
  /\ pc' = [pc EXCEPT ![t] = AfterSave(t)]
  /\ sv' = [sv EXCEPT ![t] = SvIdle]
  /\ UNCHANGED <<user_data, user_states, clock, mon, hnd, outbox, prev, msgs, stores, hist>>

StoredUser(d, cars) ==
  [id |-> d.id, city |-> d.city, monitored_cars |-> cars,
   filters |-> d.filters, price_threshold |-> d.price_threshold]

\* next entry of the user map.  A user without cars is written whole; for
\* the others 'city' is written and monitored_cars is entered
SaveUser(t) ==
  /\ pc[t] = "s_user"
  /\ IF Len(user_data) # sv[t].un THEN SaveDumpError(t)
     ELSE IF sv[t].ui = sv[t].un THEN SaveClose(t)
     ELSE LET d == user_data[sv[t].ui + 1] IN
          /\ IF d.monitored_cars = <<>>
             THEN /\ pc' = pc
                  /\ sv' = [sv EXCEPT ![t].ui = @ + 1,
                                      ![t].buf = Append(@, StoredUser(d, <<>>))]
             ELSE /\ pc' = [pc EXCEPT ![t] = "s_car"]
                  /\ sv' = [sv EXCEPT ![t].ui = @ + 1, ![t].ci = 0,
                                      ![t].cn = Len(d.monitored_cars),
                                      ![t].cur = [id |-> d.id, city |-> d.city,
                                                  monitored_cars |-> <<>>]]
          /\ UNCHANGED <<user_data, user_states, file, clock, mon, hnd, outbox,
                         prev, msgs, stores, hist>>

\* next entry of monitored_cars: the fields before 'price_history' are written
SaveCar(t) ==
  /\ pc[t] = "s_car"
  /\ LET d == user_data[sv[t].ui] IN
     IF Len(d.monitored_cars) # sv[t].cn THEN SaveDumpError(t)
     ELSE /\ pc' = [pc EXCEPT ![t] = "s_hist"]
          /\ sv' = [sv EXCEPT ![t].ci = @ + 1,
                              ![t].car = d.monitored_cars[sv[t].ci + 1]]
          /\ UNCHANGED <<user_data, user_states, file, clock, mon, hnd, outbox,
                         prev, msgs, stores, hist>>

\* 'price_history', the last key of a car, is written; after the last car
\* 'filters' and 'price_threshold' close the user's entry
SaveHist(t) ==
  /\ pc[t] = "s_hist"
  /\ LET d == user_data[sv[t].ui]
         h == d.monitored_cars[sv[t].ci].price_history
         cars == Append(sv[t].cur.monitored_cars,
                        [sv[t].car EXCEPT !.price_history = h])
     IN IF sv[t].ci < sv[t].cn
        THEN /\ sv' = [sv EXCEPT ![t].cur.monitored_cars = cars]
             /\ pc' = [pc EXCEPT ![t] = "s_car"]
             /\ UNCHANGED <<user_data, user_states, file, clock, mon, hnd,
                            outbox, prev, msgs, stores, hist>>
        ELSE IF Len(d.monitored_cars) # sv[t].cn THEN SaveDumpError(t)
        ELSE /\ sv' = [sv EXCEPT ![t].buf = Append(@, StoredUser(d, cars)),
                                 ![t].cur = <<>>, ![t].car = <<>>]
             /\ pc' = [pc EXCEPT ![t] = "s_user"]
             /\ UNCHANGED <<user_data, user_states, file, clock, mon, hnd,
                            outbox, prev, msgs, stores, hist>>

----------------------------------------------------------------------------
\* monitor_prices (lines 755-817) under run_monitoring_loop (819-823)

M == "monitor"
MonUser == user_data[mon.ui]
MonCar == user_data[mon.ui].monitored_cars[mon.ci]

\* while True: await self.monitor_prices(); the outer iterator is made
StartPass ==
  /\ pc[M] = "idle"
  /\ mon' = [MonIdle EXCEPT !.un = Len(user_data), !.at_start = Listings(user_data)]
  /\ pc' = [pc EXCEPT ![M] = "nextUser"]
  /\ UNCHANGED <<user_data, user_states, file, clock, hnd, sv, outbox, prev, msgs, stores, hist>>

\* for user_id, data in self.user_data.items()  (line 759-761)
NextUser ==
  /\ pc[M] = "nextUser"
  /\ IF Len(user_data) # mon.un
     THEN /\ pc' = [pc EXCEPT ![M] = "dead"]
          /\ mon' = mon
     ELSE IF mon.ui = mon.un
     THEN /\ pc' = [pc EXCEPT ![M] = "s_open"]
          /\ mon' = mon
     ELSE LET d == user_data[mon.ui + 1] IN
          /\ mon' = [mon EXCEPT !.ui = @ + 1, !.ci = 0,
                                !.cn = Len(d.monitored_cars)]
          /\ pc' = [pc EXCEPT ![M] =
                      IF d.monitored_cars = <<>> THEN "nextUser" ELSE "nextCar"]
  /\ UNCHANGED <<user_data, user_states, file, clock, hnd, sv, outbox, prev, msgs, stores, hist>>

\* for url, car in data['monitored_cars'].items()  (line 763)
NextCar ==
  /\ pc[M] = "nextCar"
  /\ IF Len(MonUser.monitored_cars) # mon.cn
     THEN /\ pc' = [pc EXCEPT ![M] = "dead"]
          /\ mon' = mon
     ELSE IF mon.ci = mon.cn
     THEN /\ pc' = [pc EXCEPT ![M] = "nextUser"]
          /\ mon' = mon
     ELSE /\ pc' = [pc EXCEPT ![M] = "fetch"]
          /\ mon' = [mon EXCEPT !.ci = @ + 1, !.new_price = 0, !.old_price = 0,
                                !.pre_history = <<>>, !.repeat = FALSE,
                                !.last_seen = None]
  /\ UNCHANGED <<user_data, user_states, file, clock, hnd, sv, outbox, prev, msgs, stores, hist>>

\* mutant: a failed fetch ends the pass
FetchFailedEndsPass(maxclock) ==
  /\ pc[M] = "fetch"
  /\ clock < maxclock
  /\ clock' = clock + 1
  /\ pc' = [pc EXCEPT ![M] = "s_open"]
  /\ mon' = [mon EXCEPT !.polled = @ \cup {<<MonUser.id, MonCar.url>>},
                        !.failed = @ \cup {<<MonUser.id, MonCar.url>>}]
  /\ UNCHANGED <<user_data, user_states, file, hnd, sv, outbox, prev, msgs, stores, hist>>

\* new_data = await self.parser.fetch_car_data(url)  (lines 765-768, 813).
\* Time is counted in fetches of the monitor: the clock advances while it waits.
FetchFailed(maxclock) ==
  /\ pc[M] = "fetch"
  /\ clock < maxclock
  /\ clock' = clock + 1
  /\ pc' = [pc EXCEPT ![M] = "nextCar"]
  /\ mon' = [mon EXCEPT !.polled = @ \cup {<<MonUser.id, MonCar.url>>},
                        !.failed = @ \cup {<<MonUser.id, MonCar.url>>}]
  /\ UNCHANGED <<user_data, user_states, file, hnd, sv, outbox, prev, msgs, stores, hist>>

FetchOk(P, maxclock) ==
  /\ pc[M] = "fetch"
  /\ clock < maxclock
  /\ clock' = clock + 1
  /\ \E snap \in Snapshots(MonCar.url, P) :
       mon' = [mon EXCEPT !.new_price = snap.price,
                          !.polled = @ \cup {<<MonUser.id, MonCar.url>>}]
  /\ pc' = [pc EXCEPT ![M] = "read"]
  /\ UNCHANGED <<user_data, user_states, file, hnd, sv, outbox, prev, msgs, stores, hist>>

\* mutant: the threshold test of line 778 is left out
DecideNoThreshold(old, new, thr) ==
  IF old = new THEN "sleep"
  ELSE IF old = 0 THEN "nextCar"
  ELSE "setPrice"

\* mutant: the ZeroDivisionError of line 776 is not caught and ends the thread
DecideZeroEndsThread(old, new, thr) ==
  IF old = new THEN "sleep"
  ELSE IF old = 0 THEN "dead"
  ELSE IF ThresholdReached(old, new, thr) THEN "setPrice"
  ELSE "sleep"

\* where line 775-778 leads for old_price, new_price
Decide(old, new, thr) ==
  IF old = new THEN "sleep"
  ELSE IF old = 0 THEN "nextCar"       \* ZeroDivisionError, caught at 813
  ELSE IF ThresholdReached(old, new, thr) THEN "setPrice"
  ELSE "sleep"

\* mutant: old_price is the price the previous fetch of the listing returned
ReadPriceAgainstLastSeen ==
  /\ pc[M] = "read"
  /\ user_data' = [user_data EXCEPT
                     ![mon.ui].monitored_cars[mon.ci].last_check = clock]
  /\ LET seen == prev[MonUser.id][MonCar.url]
         old == IF seen = None THEN MonCar.price ELSE seen[1]
     IN /\ mon' = [mon EXCEPT !.old_price = old,
                              !.pre_history = MonCar.price_history,
                              !.repeat = (seen = Some(mon.new_price)),
                              !.last_seen = seen]
        /\ pc' = [pc EXCEPT ![M] =
                    Decide(old, mon.new_price, MonUser.price_threshold)]
  /\ prev' = [prev EXCEPT ![MonUser.id][MonCar.url] = Some(mon.new_price)]
  /\ stores' = stores \cup {user_data'}
  /\ UNCHANGED <<user_states, file, clock, hnd, sv, outbox, msgs, hist>>

\* lines 770-778
ReadPrice ==
  /\ pc[M] = "read"
  /\ user_data' = [user_data EXCEPT
                     ![mon.ui].monitored_cars[mon.ci].last_check = clock]
  /\ mon' = [mon EXCEPT !.old_price = MonCar.price,
                        !.pre_history = MonCar.price_history,
                        !.repeat = (prev[MonUser.id][MonCar.url] = Some(mon.new_price)),
                        !.last_seen = prev[MonUser.id][MonCar.url]]
  /\ prev' = [prev EXCEPT ![MonUser.id][MonCar.url] = Some(mon.new_price)]
  /\ pc' = [pc EXCEPT ![M] =
              Decide(MonCar.price, mon.new_price, MonUser.price_threshold)]
  /\ stores' = stores \cup {user_data'}
  /\ UNCHANGED <<user_states, file, clock, hnd, sv, outbox, msgs, hist>>

\* mutant: the accepted price also replaces the price the listing began with
SetPriceAndInitial ==
  /\ pc[M] = "setPrice"
  /\ user_data' = [user_data EXCEPT
                     ![mon.ui].monitored_cars[mon.ci].price = mon.new_price,
                     ![mon.ui].monitored_cars[mon.ci].initial_price = mon.new_price]
  /\ pc' = [pc EXCEPT ![M] = "append"]
  /\ stores' = stores \cup {user_data'}
  /\ UNCHANGED <<user_states, file, clock, mon, hnd, sv, outbox, prev, msgs, hist>>

\* mutant: the accepted price is not stored
SetPriceNotStored ==
  /\ pc[M] = "setPrice"
  /\ user_data' = [user_data EXCEPT
                     ![mon.ui].monitored_cars[mon.ci].price = mon.old_price]
  /\ pc' = [pc EXCEPT ![M] = "append"]
  /\ stores' = stores \cup {user_data'}
  /\ UNCHANGED <<user_states, file, clock, mon, hnd, sv, outbox, prev, msgs, hist>>

\* line 779
SetPrice ==
  /\ pc[M] = "setPrice"
  /\ user_data' = [user_data EXCEPT
                     ![mon.ui].monitored_cars[mon.ci].price = mon.new_price]
  /\ pc' = [pc EXCEPT ![M] = "append"]
  /\ stores' = stores \cup {user_data'}
  /\ UNCHANGED <<user_states, file, clock, mon, hnd, sv, outbox, prev, msgs, hist>>

\* lines 780-783
AppendHistory ==
  /\ pc[M] = "append"
  /\ user_data' = [user_data EXCEPT
                     ![mon.ui].monitored_cars[mon.ci].price_history =
                        Append(@, [price |-> mon.new_price, date |-> clock])]
  /\ pc' = [pc EXCEPT ![M] = "notify"]
  /\ stores' = stores \cup {user_data'}
  /\ UNCHANGED <<user_states, file, clock, mon, hnd, sv, outbox, prev, msgs, hist>>

\* mutant: the exception of send_message is not caught and ends the pass
NotifyFailureEndsPass ==
  /\ pc[M] = "notify"
  /\ outbox' = Append(outbox, Notification(MonUser.id, MonCar.url,
                                           mon.old_price, mon.new_price))
  /\ \E ok \in BOOLEAN :
       /\ mon' = [mon EXCEPT !.delivered = ok,
                             !.undelivered = IF ok THEN @
                                             ELSE @ \cup {<<MonUser.id, MonCar.url>>}]
       /\ pc' = [pc EXCEPT ![M] = IF ok THEN "sleep" ELSE "s_open"]
  /\ UNCHANGED <<user_data, user_states, file, clock, hnd, sv, prev, msgs, stores, hist>>

\* lines 785-809: the message is built and handed to send_message, whose
\* failure is caught and logged
Notify ==
  /\ pc[M] = "notify"
  /\ outbox' = Append(outbox, Notification(MonUser.id, MonCar.url,
                                           mon.old_price, mon.new_price))
  /\ \E ok \in BOOLEAN :
       mon' = [mon EXCEPT !.delivered = ok,
                          !.undelivered = IF ok THEN @
                                          ELSE @ \cup {<<MonUser.id, MonCar.url>>}]
  /\ pc' = [pc EXCEPT ![M] = "sleep"]
  /\ UNCHANGED <<user_data, user_states, file, clock, hnd, sv, prev, msgs, stores, hist>>

\* await asyncio.sleep(2)  (line 811)
Pace ==
  /\ pc[M] = "sleep"
  /\ pc' = [pc EXCEPT ![M] = "nextCar"]
  /\ mon' = [mon EXCEPT !.new_price = 0, !.old_price = 0, !.repeat = FALSE,
                        !.pre_history = <<>>, !.delivered = TRUE,
                        !.last_seen = None]
  /\ UNCHANGED <<user_data, user_states, file, clock, hnd, sv, outbox, prev, msgs, stores, hist>>

Monitor(P, maxclock) ==
  \/ StartPass \/ NextUser \/ NextCar \/ FetchFailed(maxclock)
  \/ FetchOk(P, maxclock)
  \/ ReadPrice \/ SetPrice \/ AppendHistory \/ Notify \/ Pace

----------------------------------------------------------------------------
\* run (lines 837-843): one event at a time, each handled to its end

H == "main"

\* self.user_states.get(user_id, STATE_MAIN_MENU)
StateOf(u) == IF user_states[u] = "absent" THEN STATE_MAIN_MENU ELSE user_states[u]

\* mutant: events are dispatched while a handler awaits its fetch
MainFreeDuringFetch == pc[H] \in {"idle", "url_fetch"}

\* the for loop of run() takes the next event only when handle_message returned
MainFree == pc[H] = "idle"

\* mutant: line 293 is left out
handle_startKeepsState(u) ==
  /\ user_data' = get_user_data(user_data, u)
  /\ stores' = stores \cup {user_data'}
  /\ UNCHANGED <<user_states, file, clock, pc, mon, hnd, sv, outbox, prev>>

\* lines 274-294
handle_start(u) ==
  /\ user_data' = get_user_data(user_data, u)
  /\ stores' = stores \cup {user_data'}
  /\ user_states' = [user_states EXCEPT ![u] = STATE_MAIN_MENU]
  /\ UNCHANGED <<file, clock, pc, mon, hnd, sv, outbox, prev>>

\* lines 296-301
handle_choose_city(u) ==
  /\ user_states' = [user_states EXCEPT ![u] = STATE_CHOOSING_CITY]
  /\ UNCHANGED <<user_data, file, clock, pc, mon, hnd, sv, outbox, prev, stores>>

\* lines 303-317, up to the call of save_user_data
handle_city_selected(u, city) ==
  IF city = BTN_OTHER_CITY
  THEN UNCHANGED <<user_data, user_states, file, clock, pc, mon, hnd, sv, outbox, prev, stores>>
  ELSE LET ud == get_user_data(user_data, u) IN
       /\ user_data' = [ud EXCEPT ![UserIdx(ud, u)].city = Some(city)]
       /\ stores' = stores \cup {user_data'}
       /\ hnd' = [user |-> u, url |-> "", next_state |-> STATE_MAIN_MENU]
       /\ pc' = [pc EXCEPT ![H] = "s_open"]
       /\ UNCHANGED <<user_states, file, clock, mon, sv, outbox, prev>>

\* mutant: the city test of line 323 is left out
handle_add_urlNoCityCheck(u) ==
  /\ user_data' = get_user_data(user_data, u)
  /\ stores' = stores \cup {user_data'}
  /\ user_states' = [user_states EXCEPT ![u] = STATE_ADDING_URL]
  /\ UNCHANGED <<file, clock, pc, mon, hnd, sv, outbox, prev>>

\* lines 319-338
handle_add_url(u) ==
  LET ud == get_user_data(user_data, u) IN
  /\ user_data' = ud
  /\ stores' = stores \cup {user_data'}
  /\ user_states' = IF TruthyStr(ud[UserIdx(ud, u)].city)
                    THEN [user_states EXCEPT ![u] = STATE_ADDING_URL]
                    ELSE user_states
  /\ UNCHANGED <<file, clock, pc, mon, hnd, sv, outbox, prev>>

\* lines 423-459: reads the profile, replies
handle_list_cars(u) ==
  /\ user_data' = get_user_data(user_data, u)
  /\ stores' = stores \cup {user_data'}
  /\ UNCHANGED <<user_states, file, clock, pc, mon, hnd, sv, outbox, prev>>

\* mutant: the duplicate check of line 350 is left out
handle_url_receivedNoDuplicateCheck(u, url) ==
  IF ~IsSupportedUrl(url) \/ UserIdx(user_data, u) = 0
  THEN UNCHANGED <<user_data, user_states, file, clock, pc, mon, hnd, sv, outbox, prev, stores>>
  ELSE /\ hnd' = [user |-> u, url |-> url, next_state |-> STATE_MAIN_MENU]
       /\ pc' = [pc EXCEPT ![H] = "url_fetch"]
       /\ UNCHANGED <<user_data, user_states, file, clock, mon, sv, outbox, prev, stores>>

\* lines 340-360, up to the await of the fetch
handle_url_received(u, url) ==
  IF ~IsSupportedUrl(url) \/ UserIdx(user_data, u) = 0
  THEN UNCHANGED <<user_data, user_states, file, clock, pc, mon, hnd, sv, outbox, prev, stores>>
  ELSE IF CarIdx(user_data[UserIdx(user_data, u)].monitored_cars, url) # 0
  THEN /\ user_states' = [user_states EXCEPT ![u] = STATE_MAIN_MENU]
       /\ UNCHANGED <<user_data, file, clock, pc, mon, hnd, sv, outbox, prev, stores>>
  ELSE /\ hnd' = [user |-> u, url |-> url, next_state |-> STATE_MAIN_MENU]
       /\ pc' = [pc EXCEPT ![H] = "url_fetch"]
       /\ UNCHANGED <<user_data, user_states, file, clock, mon, sv, outbox, prev, stores>>

\* a handler that only sets the state and replies
GoTo(u, state) ==
  /\ user_states' = [user_states EXCEPT ![u] = state]
  /\ UNCHANGED <<user_data, file, clock, pc, mon, hnd, sv, outbox, prev, stores>>

\* a handler that does nothing to the state of the program
Ignore ==
  UNCHANGED <<user_data, user_states, file, clock, pc, mon, hnd, sv, outbox, prev, stores>>

\* mutant: the state is set before save_user_data is called
StoreFilterStateFirst(u, name, value, next_state) ==
  LET ud == get_user_data(user_data, u) IN
  /\ user_data' = [ud EXCEPT ![UserIdx(ud, u)].filters[name] = value]
  /\ stores' = stores \cup {user_data'}
  /\ hnd' = [user |-> u, url |-> "", next_state |-> next_state]
  /\ pc' = [pc EXCEPT ![H] = "s_open"]
  /\ user_states' = [user_states EXCEPT ![u] = next_state]
  /\ UNCHANGED <<file, clock, mon, sv, outbox, prev>>

\* user_data['filters'][name] = value, up to the call of save_user_data; the
\* state is set to next_state after the save
StoreFilter(u, name, value, next_state) ==
  LET ud == get_user_data(user_data, u) IN
  /\ user_data' = [ud EXCEPT ![UserIdx(ud, u)].filters[name] = value]
  /\ stores' = stores \cup {user_data'}
  /\ hnd' = [user |-> u, url |-> "", next_state |-> next_state]
  /\ pc' = [pc EXCEPT ![H] = "s_open"]
  /\ UNCHANGED <<user_states, file, clock, mon, sv, outbox, prev>>

\* lines 460-469
handle_filters_menu(u) ==
  /\ user_data' = get_user_data(user_data, u)
  /\ stores' = stores \cup {user_data'}
  /\ user_states' = [user_states EXCEPT ![u] = STATE_SETTING_FILTERS]
  /\ UNCHANGED <<file, clock, pc, mon, hnd, sv, outbox, prev>>

\* lines 471-476
handle_price_filter(u) == GoTo(u, STATE_PRICE_MIN)

\* price = int(value.replace(..)); if price < 0: raise ValueError
ValidPrice(value) ==
  LET price == ParseInt(StripSeparators(value)) IN
  price # None /\ price[1] >= 0

\* mutant: the upper bound of line 530 is left out
ValidYearNoUpperBound(value) ==
  LET year == ParseInt(value) IN
  year # None /\ (year[1] = 0 \/ year[1] >= 1900)

\* year = int(value); if year != 0 and (year < 1900 or year > current_year): raise
ValidYear(value) ==
  LET year == ParseInt(value) IN
  year # None /\ (year[1] = 0 \/ (year[1] >= 1900 /\ year[1] <= CurrentYear))

\* mutant: 0 is stored as a bound
BoundKeepsZero(n) == Some(n)

\* price if price > 0 else None
Bound(n) == IF n > 0 THEN Some(n) ELSE None

\* lines 479-496
handle_price_min(u, value) ==
  IF ~ValidPrice(value) THEN Ignore
  ELSE StoreFilter(u, "price_min", Bound(ParseInt(StripSeparators(value))[1]),
                   STATE_PRICE_MAX)

\* lines 498-515
handle_price_max(u, value) ==
  IF ~ValidPrice(value) THEN Ignore
  ELSE StoreFilter(u, "price_max", Bound(ParseInt(StripSeparators(value))[1]),
                   STATE_SETTING_FILTERS)

\* lines 517-522
handle_year_filter(u) == GoTo(u, STATE_YEAR_MIN)

\* lines 524-543
handle_year_min(u, value) ==
  IF ~ValidYear(value) THEN Ignore
  ELSE StoreFilter(u, "year_min", Bound(ParseInt(value)[1]), STATE_YEAR_MAX)

\* lines 545-564
handle_year_max(u, value) ==
  IF ~ValidYear(value) THEN Ignore
  ELSE StoreFilter(u, "year_max", Bound(ParseInt(value)[1]), STATE_SETTING_FILTERS)

\* lines 566-571
handle_condition_filter(u) == GoTo(u, STATE_CONDITION)

\* lines 573-590: condition_map.get(condition_text)
handle_condition_selected(u, text) ==
  IF text # CondNew THEN Ignore
  ELSE StoreFilter(u, "condition", Some("new"), STATE_SETTING_FILTERS)

\* lines 592-597
handle_documents_filter(u) == GoTo(u, STATE_DOCUMENTS)

\* lines 599-616: docs_map.get(docs_text)
handle_documents_selected(u, text) ==
  IF text # DocsWith THEN Ignore
  ELSE StoreFilter(u, "documents", Some("with_docs"), STATE_SETTING_FILTERS)

\* mutant: the reset of the filters also empties the user's listings
handle_clear_filtersDropsListings(u) ==
  LET ud == get_user_data(user_data, u) IN
  /\ user_data' = [ud EXCEPT ![UserIdx(ud, u)].filters = NoFilters,
                             ![UserIdx(ud, u)].monitored_cars = <<>>]
  /\ stores' = stores \cup {user_data'}
  /\ hnd' = [user |-> u, url |-> "", next_state |-> STATE_SETTING_FILTERS]
  /\ pc' = [pc EXCEPT ![H] = "s_open"]
  /\ UNCHANGED <<user_states, file, clock, mon, sv, outbox, prev>>

\* lines 618-633
handle_clear_filters(u) ==
  LET ud == get_user_data(user_data, u) IN
  /\ user_data' = [ud EXCEPT ![UserIdx(ud, u)].filters = NoFilters]
  /\ stores' = stores \cup {user_data'}
  /\ hnd' = [user |-> u, url |-> "", next_state |-> STATE_SETTING_FILTERS]
  /\ pc' = [pc EXCEPT ![H] = "s_open"]
  /\ UNCHANGED <<user_states, file, clock, mon, sv, outbox, prev>>

\* lines 635-647: reads the profile, replies
handle_settings(u) ==
  /\ user_data' = get_user_data(user_data, u)
  /\ stores' = stores \cup {user_data'}
  /\ UNCHANGED <<user_states, file, clock, pc, mon, hnd, sv, outbox, prev>>

\* lines 649-678
handle_help(u) == Ignore

\* lines 680-753
handle_message(u, msg) ==
  IF msg = BACK THEN handle_start(u)
  ELSE IF StateOf(u) = STATE_MAIN_MENU \/ msg = START THEN
         IF msg = BTN_CITY THEN handle_choose_city(u)
         ELSE IF msg = BTN_ADD THEN handle_add_url(u)
         ELSE IF msg = BTN_LIST THEN handle_list_cars(u)
         ELSE IF msg = BTN_FILTERS THEN handle_filters_menu(u)
         ELSE IF msg = BTN_SETTINGS THEN handle_settings(u)
         ELSE IF msg = BTN_HELP THEN handle_help(u)
         ELSE handle_start(u)
  ELSE IF StateOf(u) = STATE_CHOOSING_CITY THEN handle_city_selected(u, msg)
  ELSE IF StateOf(u) = STATE_ADDING_URL THEN handle_url_received(u, msg)
  ELSE IF StateOf(u) = STATE_SETTING_FILTERS THEN
         IF msg = BTN_PRICE THEN handle_price_filter(u)
         ELSE IF msg = BTN_YEAR THEN handle_year_filter(u)
         ELSE IF msg = BTN_CONDITION THEN handle_condition_filter(u)
         ELSE IF msg = BTN_DOCUMENTS THEN handle_documents_filter(u)
         ELSE IF msg = BTN_CLEAR THEN handle_clear_filters(u)
         ELSE Ignore
  ELSE IF StateOf(u) = STATE_PRICE_MIN THEN handle_price_min(u, msg)
  ELSE IF StateOf(u) = STATE_PRICE_MAX THEN handle_price_max(u, msg)
  ELSE IF StateOf(u) = STATE_YEAR_MIN THEN handle_year_min(u, msg)
  ELSE IF StateOf(u) = STATE_YEAR_MAX THEN handle_year_max(u, msg)
  ELSE IF StateOf(u) = STATE_CONDITION THEN handle_condition_selected(u, msg)
  ELSE IF StateOf(u) = STATE_DOCUMENTS THEN handle_documents_selected(u, msg)
  ELSE UNCHANGED <<user_data, user_states, file, clock, pc, mon, hnd, sv, outbox, prev, stores>>

\* the filters of u as handle_message finds them
FiltersOf(ud, u) == IF UserIdx(ud, u) = 0 THEN NoFilters ELSE ud[UserIdx(ud, u)].filters

\* the event (u, msg) is recorded
Taken(u, msg) ==
  [hist EXCEPT
     !.user = u, !.text = msg, !.state = StateOf(u), !.fetch = "none", !.snap = None,
     !.again = IF /\ hist.user = u /\ hist.text = msg /\ hist.fetch = "refused"
                  /\ hist.state = STATE_ADDING_URL /\ StateOf(u) = STATE_ADDING_URL
               THEN hist.snap ELSE None,
     !.entry = IF StateOf(u) = STATE_SETTING_FILTERS /\ msg \in {BTN_PRICE, BTN_YEAR}
               THEN [hist.entry EXCEPT ![u] = FiltersOf(user_data, u)]
               ELSE hist.entry]

TotalCars == LET RECURSIVE Sum(_)
                 Sum(i) == IF i = 0 THEN 0
                           ELSE Len(user_data[i].monitored_cars) + Sum(i - 1)
             IN Sum(Len(user_data))

Receive(Msgs, maxmsgs) ==
  /\ MainFree
  /\ msgs < maxmsgs
  /\ msgs' = msgs + 1
  /\ \E u \in Users :
       \E msg \in Inputs(StateOf(u)) \cap Msgs :
          /\ (StateOf(u) = STATE_ADDING_URL /\ msg \in Urls) => TotalCars < MaxCars
          /\ handle_message(u, msg)
          /\ hist' = Taken(u, msg)

\* mutant: after a failed fetch the session is sent back to the main menu
UrlFetchFailedToMenu ==
  /\ pc[H] = "url_fetch"
  /\ pc' = [pc EXCEPT ![H] = "idle"]
  /\ hnd' = HndIdle
  /\ hist' = [hist EXCEPT !.fetch = "failed"]
  /\ user_states' = [user_states EXCEPT ![hnd.user] = STATE_MAIN_MENU]
  /\ UNCHANGED <<user_data, file, clock, mon, sv, outbox, prev, msgs, stores>>

\* lines 360-365: the fetch returns nothing, or raises into run()
UrlFetchFailed ==
  /\ pc[H] = "url_fetch"
  /\ pc' = [pc EXCEPT ![H] = "idle"]
  /\ hnd' = HndIdle
  /\ hist' = [hist EXCEPT !.fetch = "failed"]
  /\ UNCHANGED <<user_data, user_states, file, clock, mon, sv, outbox, prev, msgs, stores>>

\* lines 360-400: the fetch returns a snapshot
UrlFetchOk(P) ==
  /\ pc[H] = "url_fetch"
  /\ \E snap \in Snapshots(hnd.url, P) :
       LET ud == get_user_data(user_data, hnd.user)
           i == UserIdx(ud, hnd.user)
       IN IF ~check_filters(snap, ud[i].filters)
          THEN /\ pc' = [pc EXCEPT ![H] = "idle"]
               /\ hnd' = HndIdle
               /\ user_data' = user_data
               /\ hist' = [hist EXCEPT !.fetch = "refused", !.snap = Some(snap)]
          ELSE /\ user_data' = AddListing(ud, i, NewCar(hnd.url, snap, clock))
               /\ pc' = [pc EXCEPT ![H] = "s_open"]
               /\ hnd' = hnd
               /\ hist' = [hist EXCEPT !.fetch = "added", !.snap = Some(snap)]
  /\ stores' = stores \cup {user_data'}
  /\ UNCHANGED <<user_states, file, clock, mon, sv, outbox, prev, msgs>>

\* the lines after save_user_data: the state is set and the reply sent
\* (316-317, 420-421)
Finish ==
  /\ pc[H] = "finish"
  /\ user_states' = [user_states EXCEPT ![hnd.user] = hnd.next_state]
  /\ pc' = [pc EXCEPT ![H] = "idle"]
  /\ hnd' = HndIdle
  /\ UNCHANGED <<user_data, file, clock, mon, sv, outbox, prev, msgs, stores, hist>>

Save ==
  \E t \in Threads :
    SaveOpen(t) \/ SaveUser(t) \/ SaveCar(t) \/ SaveHist(t)

Main(P, maxmsgs) ==
  Receive(Messages, maxmsgs) \/ UrlFetchFailed \/ UrlFetchOk(P) \/ Finish

\* The two threads over a store that starts empty or with one listing
Next == Monitor(ConcPrices, MaxClock) \/ Main(ConcPrices, MaxMsgs) \/ Save

Spec == Init /\ [][Next]_vars

\* __init__ after the process was killed: everything in memory is lost and
\* load_user_data (lines 55-61) reads the file; json.load raises on a file
\* that holds no complete document and the process ends
Crash ==
  /\ pc[H] # "down"
  /\ user_data' = IF file.exists /\ ~file.complete THEN <<>> ELSE load_user_data(file)
  /\ stores' = stores \cup {user_data'}
  /\ user_states' = [u \in Users |-> "absent"]
  /\ pc' = [t \in Threads |->
              IF file.exists /\ ~file.complete THEN "down" ELSE "idle"]
  /\ mon' = MonIdle
  /\ hnd' = HndIdle
  /\ sv' = [t \in Threads |-> SvIdle]
  /\ hist' = HistIdle
  /\ UNCHANGED <<file, clock, outbox, prev, msgs>>

SaveFails == \E t \in Threads : SaveOpenFail(t)

\* The two threads, with the process killed and restarted at any moment and
\* with writes of the file that fail
NextCrash == Next \/ Crash \/ SaveFails

SpecCrash == Init /\ [][NextCrash]_vars

\* save_user_data as the main thread runs it
MainSave == SaveOpen(H) \/ SaveUser(H) \/ SaveCar(H) \/ SaveHist(H)

\* what a user sends while adding listings
AddMessages == {BACK, BTN_ADD, UrlA, UrlB, BadText}

\* The main thread alone, every text of the dialog
NextDialog == Receive(DialogMessages, MaxDlgMsgs) \/ Finish \/ MainSave

SpecDialog == Init /\ [][NextDialog]_vars

\* The main thread alone, adding listings to a store whose user has filters
NextAdd ==
  \/ Receive(AddMessages, MaxAddMsgs)
  \/ UrlFetchFailed \/ UrlFetchOk(Prices) \/ Finish \/ MainSave

SpecAdd == InitAdd /\ [][NextAdd]_vars

\* the texts that lead to every change of a stored profile
PersistMessages ==
  {BACK, BTN_CITY, CityMoscow, BTN_ADD, UrlB, BTN_FILTERS, BTN_PRICE, BTN_YEAR,
   BTN_CONDITION, BTN_DOCUMENTS, BTN_CLEAR, "500000", "2026", CondNew, DocsWith}

\* The main thread alone, with writes of the file that fail
NextPersist ==
  \/ Receive(PersistMessages, MaxPersistMsgs)
  \/ UrlFetchFailed \/ UrlFetchOk(ConcPrices) \/ Finish \/ MainSave
  \/ SaveOpenFail(H)

SpecPersist == Init /\ [][NextPersist]_vars

\* what a user sends to change the filters and to add a listing
TrackMessages == {BACK, BTN_ADD, UrlB, BTN_FILTERS, BTN_CLEAR, BTN_PRICE, "1000000"}

\* stores of a user who tracks a listing of 2015 and has no filters, or has
\* set the lower year bound to 2016 after adding it
InitTrackFiles ==
  { StoredFile(SeedStore),
    StoredFile(FilterStore([NoFilters EXCEPT !.year_min = Some(2016)])) }

InitTrack == InitFrom(InitTrackFiles)

\* The two threads, while users change their filters and add listings
NextTrack ==
  \/ Monitor(ConcPrices, MaxTrackClock)
  \/ Receive(TrackMessages, MaxTrackMsgs)
  \/ UrlFetchFailed \/ UrlFetchOk(ConcPrices) \/ Finish
  \/ Save

SpecTrack == InitTrack /\ [][NextTrack]_vars

\* a store whose user tracks a listing added at price 0 and, after it, one
\* added at 1,000,000
ZeroStore == << [SeedStore[1] EXCEPT !.monitored_cars = <<SeedCarB, SeedCar>>] >>

InitZero == InitFrom({StoredFile(ZeroStore)})

\* the prices the pages show while the store holds a listing of price 0
ZeroPrices == {900000, 1000000}

\* The monitor thread alone, over the store with a listing of price 0
NextZero == Monitor(ZeroPrices, MaxZeroClock) \/ Save

SpecZero == InitZero /\ [][NextZero]_vars

----------------------------------------------------------------------------
\* Properties

\* the poll of the monitor's current listing went through lines 770-783
PollDone == pc[M] = "sleep"

\* |new - old| / old * 100 >= threshold, for the poll in progress
DeltaAtThreshold ==
  Abs(mon.new_price - mon.old_price) * 100 >= MonUser.price_threshold * mon.old_price

HistoryGrewByNewPrice ==
  /\ Len(MonCar.price_history) = Len(mon.pre_history) + 1
  /\ SubSeq(MonCar.price_history, 1, Len(mon.pre_history)) = mon.pre_history
  /\ Last(MonCar.price_history).price = mon.new_price

\* C1: after a poll whose fetch returned a price different from currentPrice,
\* the listing has the new price and exactly one more history entry, carrying
\* the new price, when the percent delta is at or above the user's threshold;
\* below the threshold, or for an equal price, price and history are as before
C1_PollAppliesThreshold ==
  PollDone =>
    IF mon.new_price # mon.old_price /\ DeltaAtThreshold
    THEN MonCar.price = mon.new_price /\ HistoryGrewByNewPrice
    ELSE MonCar.price = mon.old_price /\ MonCar.price_history = mon.pre_history

C1_Witness ==
  /\ PollDone
  /\ mon.old_price = 1000000 /\ mon.new_price = 950000
  /\ MonCar.price = 950000 /\ HistoryGrewByNewPrice

C1_WitnessBelow ==
  /\ PollDone
  /\ mon.old_price = 1000000 /\ mon.new_price = 960000
  /\ MonCar.price = 1000000

HistoryOk(car) ==
  /\ car.price_history # <<>>
  /\ \A k \in 1..Len(car.price_history) - 1 :
        car.price_history[k].date <= car.price_history[k + 1].date
  /\ Last(car.price_history).price = car.price

StoreOk(ud) ==
  \A i \in 1..Len(ud) : \A j \in 1..Len(ud[i].monitored_cars) :
     HistoryOk(ud[i].monitored_cars[j])

\* C2: in every reachable state every tracked listing has a non-empty
\* priceHistory, ordered by non-decreasing timestamp, whose last entry has
\* the listing's currentPrice
C2_HistoryInvariant == StoreOk(user_data)

\* a step of the main thread
MainStep == msgs' # msgs \/ pc'[H] # pc[H] \/ sv'[H] # sv[H]

ListingsStay ==
  \A i \in 1..Len(user_data) :
     /\ Len(user_data') >= i
     /\ user_data'[i].id = user_data[i].id
     /\ \A j \in 1..Len(user_data[i].monitored_cars) :
          /\ Len(user_data'[i].monitored_cars) >= j
          /\ user_data'[i].monitored_cars[j].url = user_data[i].monitored_cars[j].url

MainKeepsListings ==
  MainStep =>
    \A i \in 1..Len(user_data) : \A j \in 1..Len(user_data[i].monitored_cars) :
       user_data'[i].monitored_cars[j] = user_data[i].monitored_cars[j]

AcceptedChangeStays ==
  \A i \in 1..Len(user_data) : \A j \in 1..Len(user_data[i].monitored_cars) :
     LET c == user_data[i].monitored_cars[j]
         d == user_data'[i].monitored_cars[j]
     IN /\ (d.price # c.price =>
             /\ pc[M] = "setPrice" /\ i = mon.ui /\ j = mon.ci
             /\ d.price = mon.new_price)
        /\ (d.price_history # c.price_history =>
             /\ pc[M] = "append" /\ i = mon.ui /\ j = mon.ci
             /\ Len(d.price_history) = Len(c.price_history) + 1
             /\ SubSeq(d.price_history, 1, Len(c.price_history)) = c.price_history)

\* C3: no update is lost between a polling pass and the message handling of
\* the same user: no step of the main thread changes an existing listing, a
\* listing once in a user's set stays in it, and the price and history of a
\* listing change only by the monitor's own write of the accepted price
C3_NoLostUpdate == [][ListingsStay /\ MainKeepsListings /\ AcceptedChangeStays]_vars

\* a listing was added while the pass was inside that user's loop, and the
\* change the pass accepted for the user's other listing is applied
C3_Witness ==
  /\ pc[M] = "notify"
  /\ mon.cn = 1 /\ Len(MonUser.monitored_cars) = 2
  /\ mon.new_price # mon.old_price
  /\ MonCar.price = mon.new_price
  /\ Last(MonCar.price_history).price = mon.new_price

\* the file is open for writing by thread t
InSave(t) == pc[t] \in {"s_user", "s_car", "s_hist"}

\* C4: the saves of the two paths never overlap, and whenever no save is
\* running the file holds a complete image of the user map as it stood at
\* one single moment
C4_SavesNeverTear ==
  /\ ~(InSave(H) /\ InSave(M))
  /\ ((file.exists /\ ~InSave(H) /\ ~InSave(M)) =>
       file.complete /\ file.data \in stores)

\* C5: the scheduler never stops polling
C5_SchedulerNeverStops == pc[M] # "dead"

IsLastNote(k) ==
  \A l \in DOMAIN outbox :
     (outbox[l].user = outbox[k].user /\ outbox[l].url = outbox[k].url) => l <= k

\* every listing of ud that was notified has the price its last notification announced
KeepsNotified(ud) ==
  \A k \in DOMAIN outbox : IsLastNote(k) =>
     \A i \in 1..Len(ud) : \A j \in 1..Len(ud[i].monitored_cars) :
        (ud[i].id = outbox[k].user /\ ud[i].monitored_cars[j].url = outbox[k].url)
           => ud[i].monitored_cars[j].price = outbox[k].new

\* ud holds every listing that was notified
HoldsNotified(ud) ==
  \A k \in DOMAIN outbox : <<outbox[k].user, outbox[k].url>> \in Listings(ud)

\* C6: when a pass may begin and no save is running, the file holds every price change that was
\* accepted and notified, and the store in memory (also the one reloaded after
\* a crash) never has a notified change rolled back
C6_AcceptedChangeDurable ==
  /\ ((pc[M] = "idle" /\ outbox # <<>> /\ ~InSave(H) /\ ~InSave(M)) =>
       file.complete /\ HoldsNotified(file.data) /\ KeepsNotified(file.data))
  /\ (pc[M] \notin {"append", "notify"} => KeepsNotified(user_data))

Profile(u) ==
  LET i == UserIdx(user_data, u) IN
  IF i = 0 THEN <<>>
  ELSE <<user_data[i].city, user_data[i].filters,
         [j \in 1..Len(user_data[i].monitored_cars) |->
            user_data[i].monitored_cars[j].url]>>

\* C7: an event is taken from the long poll only when no handler is running;
\* while the fetch of an add is outstanding no event is taken and the session
\* state and the profile of that user stay as they are; a session leaves
\* adding_url only in a step of a handler that is not waiting for its fetch
C7_SequentialHandling ==
  /\ [](pc[H] = "url_fetch" => user_states[hnd.user] = STATE_ADDING_URL)
  /\ [][/\ (msgs' # msgs => pc[H] = "idle")
         /\ ((pc[H] = "url_fetch" /\ pc'[H] = "url_fetch") =>
              /\ msgs' = msgs
              /\ user_states' = user_states
              /\ Profile(hnd.user)' = Profile(hnd.user))
         /\ \A u \in Users :
              (user_states[u] = STATE_ADDING_URL /\ user_states'[u] # STATE_ADDING_URL)
                 => pc[H] \in {"idle", "finish"}]_vars

\* the fetch of an add is outstanding while the monitor is inside a pass
C7_Witness ==
  /\ pc[H] = "url_fetch"
  /\ user_states[hnd.user] = STATE_ADDING_URL
  /\ pc[M] = "fetch"

\* the listings the pass has gone past: those of the users before the current
\* one, and of the current user those up to the current position
PassedBy ==
  UNION { { <<user_data[i].id, user_data[i].monitored_cars[j].url>> :
              j \in 1..(IF i < mon.ui THEN Len(user_data[i].monitored_cars)
                        ELSE IF pc[M] = "fetch" THEN mon.ci - 1 ELSE mon.ci) } :
          i \in 1..mon.ui }

\* C8: a failed fetch (no snapshot, or an exception) leaves the store and the
\* outbox as they are and takes the pass to the next listing of the same loop;
\* no listing the pass has gone past was left unpolled, and a pass that reaches
\* its end has polled every listing that was tracked when it began
C8_FetchFailureSkipsListing ==
  /\ [][(pc[M] = "fetch" /\ pc'[M] # "read" /\ clock' # clock) =>
          /\ pc'[M] = "nextCar"
          /\ user_data' = user_data /\ outbox' = outbox
          /\ mon'.ui = mon.ui /\ mon'.un = mon.un
          /\ mon'.ci = mon.ci /\ mon'.cn = mon.cn]_vars
  /\ [](pc[M] \in {"nextUser", "nextCar", "fetch", "read", "sleep"} =>
          PassedBy \subseteq mon.polled)
  /\ [](pc[M] = "s_open" => mon.at_start \subseteq mon.polled)

\* the fetch of user 1's listing failed and the pass went on to poll user
\* 2's listing and reached its end
C8_Witness ==
  /\ pc[M] = "s_open"
  /\ <<1, UrlA>> \in mon.failed
  /\ <<2, UrlB>> \in mon.polled \ mon.failed
  /\ mon.at_start = {<<1, UrlA>>, <<2, UrlB>>}

\* the poll in progress accepted a change
Accepted == mon.new_price # mon.old_price /\ mon.old_price # 0 /\ DeltaAtThreshold

\* the changes accepted so far: every history entry after the first
AcceptedCount ==
  LET RECURSIVE CarSum(_, _), UserSum(_)
      CarSum(i, j) == IF j = 0 THEN 0
                      ELSE Len(user_data[i].monitored_cars[j].price_history) - 1
                           + CarSum(i, j - 1)
      UserSum(i) == IF i = 0 THEN 0
                    ELSE CarSum(i, Len(user_data[i].monitored_cars)) + UserSum(i - 1)
  IN UserSum(Len(user_data))

\* C9: a notification is handed to send_message exactly when a poll accepts a
\* change: one per accepted change, none for an equal or sub-threshold price;
\* it names the owner and the listing and reports old and new price, direction
\* decrease iff new < old, and savings old - new for decreases only.  At
\* 1,000,000 with threshold 5 a snapshot of 960,000 sends nothing and leaves
\* the history, one of 900,000 is appended to the history and notified as a
\* decrease with savings 100,000
C9_NotifyOnAcceptedChange ==
  /\ [][outbox' # outbox =>
          /\ pc[M] = "notify" /\ Accepted
          /\ MonCar.price = mon.new_price
          /\ Len(outbox') = Len(outbox) + 1
          /\ SubSeq(outbox', 1, Len(outbox)) = outbox
          /\ Last(outbox').user = MonUser.id /\ Last(outbox').url = MonCar.url
          /\ Last(outbox').old = mon.old_price /\ Last(outbox').new = mon.new_price
          /\ (Last(outbox').direction = "decrease") = (mon.new_price < mon.old_price)
          /\ Last(outbox').savings =
                IF mon.new_price < mon.old_price
                THEN Some(mon.old_price - mon.new_price) ELSE None]_vars
  /\ [](pc[M] \in {"setPrice", "append", "notify"} => Accepted)
  /\ [](Len(outbox) = IF pc[M] = "notify" THEN AcceptedCount - 1 ELSE AcceptedCount)
  /\ []((PollDone /\ Accepted) =>
          /\ outbox # <<>>
          /\ Last(outbox).user = MonUser.id /\ Last(outbox).url = MonCar.url
          /\ Last(outbox).old = mon.old_price /\ Last(outbox).new = mon.new_price)
  /\ [](\A k \in DOMAIN outbox : ~(outbox[k].old = 1000000 /\ outbox[k].new = 960000))
  /\ []((PollDone /\ mon.old_price = 1000000 /\ mon.new_price = 960000) =>
          MonCar.price_history = mon.pre_history)
  /\ []((PollDone /\ mon.old_price = 1000000 /\ mon.new_price = 900000) =>
          /\ HistoryGrewByNewPrice
          /\ Last(outbox).direction = "decrease"
          /\ Last(outbox).savings = Some(100000))

\* the poll of a listing at 1,000,000 got 900,000 and the notification is out
C9_Witness ==
  /\ PollDone
  /\ mon.old_price = 1000000 /\ mon.new_price = 900000
  /\ Last(MonCar.price_history).price = 900000
  /\ outbox # <<>> /\ Last(outbox).savings = Some(100000)

\* C10: a poll whose snapshot has the price of the listing's previous poll
\* never reaches the lines that set the price, append to the history or
\* notify: price and history stay as the poll found them and no step taken
\* during it changes the outbox
C10_RepeatedSnapshotIdempotent ==
  /\ [](mon.repeat =>
          /\ pc[M] \notin {"setPrice", "append", "notify"}
          /\ MonCar.price = mon.old_price
          /\ MonCar.price_history = mon.pre_history)
  /\ [][mon.repeat => outbox' = outbox]_vars

\* the second of two polls with snapshot 900,000, the first of which was accepted
C10_Witness ==
  /\ PollDone /\ mon.repeat
  /\ mon.new_price = 900000 /\ MonCar.price = 900000
  /\ MonCar.initial_price = 1000000
  /\ Len(MonCar.price_history) = 2

\* Several passes over stored listings with every price, while users press
\* menu buttons
NextPoll ==
  Monitor(Prices, MaxPollClock) \/ Receive(MenuMessages, MaxPollMsgs) \/ Save

SpecPoll == InitPoll /\ [][NextPoll]_vars

----------------------------------------------------------------------------
\* Properties of the dialog

\* this step takes an event from the long poll; hist' names it
EventTaken == msgs' # msgs

Tracks(ud, u, url) == <<u, url>> \in Listings(ud)

\* C11: a URL sent in adding_url by a user who already tracks it starts no
\* fetch, leaves the store as it is and puts the session into main_menu
C11_DuplicateAdd ==
  [][(/\ EventTaken
      /\ hist'.state = STATE_ADDING_URL
      /\ IsSupportedUrl(hist'.text)
      /\ Tracks(user_data, hist'.user, hist'.text)) =>
        /\ pc'[H] = "idle"
        /\ hist'.fetch = "none"
        /\ user_data' = user_data
        /\ user_states'[hist'.user] = STATE_MAIN_MENU]_vars

\* user 1, in adding_url, has sent the URL of the stored listing
C11_Witness ==
  /\ pc[H] = "idle"
  /\ hist.user = 1 /\ hist.state = STATE_ADDING_URL /\ hist.text = UrlA
  /\ hist.fetch = "none"
  /\ user_states[1] = STATE_MAIN_MENU
  /\ Len(user_data[1].monitored_cars) = 1
  /\ user_data[1].monitored_cars[1] = SeedCar

\* C12: when a URL whose snapshot the filters refused is sent again at once by
\* the same user and the fetch returns the same snapshot, the listing is
\* created and the session moves to main_menu
C12_ResubmitOverridesFilters ==
  (hist.again # None /\ hist.snap = hist.again) =>
     /\ hist.fetch = "added"
     /\ Tracks(user_data, hist.user, hist.text)
     /\ (pc[H] = "idle" => user_states[hist.user] = STATE_MAIN_MENU)

\* the snapshot is within every bound that is set
Matches(snap, f) ==
  /\ (f.price_min # None => snap.price >= f.price_min[1])
  /\ (f.price_max # None => snap.price <= f.price_max[1])
  /\ (snap.year # None =>
        /\ (f.year_min # None => snap.year[1] >= f.year_min[1])
        /\ (f.year_max # None => snap.year[1] <= f.year_max[1]))

CityOf(ud, u) == IF UserIdx(ud, u) = 0 THEN None ELSE ud[UserIdx(ud, u)].city
CarsOf(ud, u) == IF UserIdx(ud, u) = 0 THEN <<>> ELSE ud[UserIdx(ud, u)].monitored_cars
CitySet(ud, u) == CityOf(ud, u) # None /\ CityOf(ud, u) # Some("")

\* C14: the add button sent from main_menu by a user with no city leaves the
\* session in main_menu; a session in adding_url belongs to a user whose city
\* is set
C14_AddNeedsCity ==
  /\ [][(/\ EventTaken
          /\ hist'.text = BTN_ADD /\ hist'.state = STATE_MAIN_MENU
          /\ ~CitySet(user_data, hist'.user)) =>
            /\ user_states'[hist'.user] \in {"absent", STATE_MAIN_MENU}
            /\ pc'[H] = "idle"
            /\ ~CitySet(user_data', hist'.user)]_vars
  /\ [](\A u \in Users : user_states[u] = STATE_ADDING_URL => CitySet(user_data, u))

\* a user who sent an empty text as the city asked to add a listing
C14_Witness ==
  /\ pc[H] = "idle"
  /\ hist.text = BTN_ADD /\ hist.state = STATE_MAIN_MENU
  /\ CityOf(user_data, hist.user) = Some("")
  /\ user_states[hist.user] = STATE_MAIN_MENU

\* C15: Back, in whatever state, puts the session into main_menu at once and
\* leaves city, filters and listings of every user as they are
C15_BackToMainMenu ==
  [][(EventTaken /\ hist'.text = BACK) =>
        /\ hist'.state \in States
        /\ user_states'[hist'.user] = STATE_MAIN_MENU
        /\ pc'[H] = "idle"
        /\ \A u \in Users :
             /\ CityOf(user_data', u) = CityOf(user_data, u)
             /\ FiltersOf(user_data', u) = FiltersOf(user_data, u)
             /\ CarsOf(user_data', u) = CarsOf(user_data, u)]_vars

\* Back was sent while the documents keyboard was shown
C15_Witness ==
  /\ pc[H] = "idle"
  /\ hist.text = BACK /\ hist.state = STATE_DOCUMENTS
  /\ user_states[hist.user] = STATE_MAIN_MENU

\* C16: after Back sent in price_max (year_max) the price (year) bounds of
\* the user are those the user had when the flow was entered
C16_BackDiscardsPartialValue ==
  (pc[H] = "idle" /\ hist.text = BACK) =>
     LET f == FiltersOf(user_data, hist.user)
         e == hist.entry[hist.user]
     IN /\ hist.state = STATE_PRICE_MAX =>
             f.price_min = e.price_min /\ f.price_max = e.price_max
        /\ hist.state = STATE_YEAR_MAX =>
             f.year_min = e.year_min /\ f.year_max = e.year_max

\* texts that are no year of [1900, current year] and not 0, and texts that
\* are no non-negative number
BadYearTexts == {"1899", "2027", "-5", "abc", "1 000 000"}
BadPriceTexts == {"-5", "abc"}

\* C17: an invalid number sent in one of the four awaiting states leaves the
\* session in that state and the store as it is
C17_InvalidNumberStays ==
  [][(/\ EventTaken
      /\ \/ hist'.state \in {STATE_YEAR_MIN, STATE_YEAR_MAX} /\ hist'.text \in BadYearTexts
         \/ hist'.state \in {STATE_PRICE_MIN, STATE_PRICE_MAX} /\ hist'.text \in BadPriceTexts) =>
        /\ user_states' = user_states
        /\ user_states'[hist'.user] = hist'.state
        /\ user_data' = user_data
        /\ pc'[H] = "idle"]_vars

\* the year after the current one was sent as the lower year bound
C17_Witness ==
  /\ pc[H] = "idle"
  /\ hist.state = STATE_YEAR_MIN /\ hist.text = "2027"
  /\ user_states[hist.user] = STATE_YEAR_MIN
  /\ FiltersOf(user_data, hist.user) = NoFilters

\* the bound a valid text stands for
StoredBound(text) ==
  IF text = "0" THEN None
  ELSE IF text = "500000" THEN Some(500000)
  ELSE IF text \in {"1000000", "1 000 000"} THEN Some(1000000)
  ELSE IF text = "1900" THEN Some(1900)
  ELSE Some(2026)

GoodPriceTexts == {"0", "500000", "1000000", "1 000 000"}
GoodYearTexts == {"0", "1900", "2026"}

FieldOf(state) ==
  IF state = STATE_PRICE_MIN THEN "price_min"
  ELSE IF state = STATE_PRICE_MAX THEN "price_max"
  ELSE IF state = STATE_YEAR_MIN THEN "year_min"
  ELSE "year_max"

NextOf(state) ==
  IF state = STATE_PRICE_MIN THEN STATE_PRICE_MAX
  ELSE IF state = STATE_YEAR_MIN THEN STATE_YEAR_MAX
  ELSE STATE_SETTING_FILTERS

\* a valid number was sent in one of the four awaiting states
ValidNumberSent(h) ==
  \/ h.state \in {STATE_PRICE_MIN, STATE_PRICE_MAX} /\ h.text \in GoodPriceTexts
  \/ h.state \in {STATE_YEAR_MIN, STATE_YEAR_MAX} /\ h.text \in GoodYearTexts

\* C18: a valid number sent in an awaiting state sets the bound of that state
\* to the number, or clears it for 0, and changes nothing else in the store;
\* once the handler is done the session is in the next state of the flow
C18_ValidNumberStored ==
  /\ [][(EventTaken /\ ValidNumberSent(hist')) =>
          /\ UserIdx(user_data, hist'.user) # 0
          /\ user_data' =
               [user_data EXCEPT
                  ![UserIdx(user_data, hist'.user)].filters[FieldOf(hist'.state)] =
                     StoredBound(hist'.text)]
          /\ hnd'.user = hist'.user
          /\ hnd'.next_state = NextOf(hist'.state)]_vars
  /\ []((pc[H] = "idle" /\ ValidNumberSent(hist)) =>
          user_states[hist.user] = NextOf(hist.state))

\* 1900 was stored as the lower year bound, then 0 sent for the upper one
C18_Witness ==
  /\ pc[H] = "idle"
  /\ hist.state = STATE_YEAR_MAX /\ hist.text = "0"
  /\ user_states[hist.user] = STATE_SETTING_FILTERS
  /\ FiltersOf(user_data, hist.user).year_min = Some(1900)
  /\ FiltersOf(user_data, hist.user).year_max = None

\* C19: with a lower price bound set, the filter check of an add refuses a
\* snapshot whose price is below the bound, and admits a snapshot whose price
\* is the bound when the upper price bound and the year bounds admit it
C19_PriceMinInclusive ==
  [][(/\ pc[H] = "url_fetch" /\ hist'.snap # None
      /\ FiltersOf(user_data, hnd.user).price_min # None
      /\ FiltersOf(user_data, hnd.user).price_min # Some(0)) =>
        LET f == FiltersOf(user_data, hnd.user)
            snap == hist'.snap[1]
        IN /\ snap.price < f.price_min[1] =>
                hist'.fetch = "refused" /\ user_data' = user_data
           /\ (/\ snap.price = f.price_min[1]
               /\ Matches(snap, [f EXCEPT !.price_min = None])) =>
                /\ hist'.fetch = "added"
                /\ Tracks(user_data', hnd.user, hnd.url)]_vars

\* a snapshot priced at the lower bound, which is also the upper bound, was admitted
C19_Witness ==
  /\ hist.fetch = "added"
  /\ hist.snap # None
  /\ hist.snap[1].price = 950000
  /\ FiltersOf(user_data, hist.user).price_min = Some(950000)
  /\ FiltersOf(user_data, hist.user).price_max = Some(950000)

\* C20: a price range, and a year range, with both bounds set has min <= max
C20_RangeOrdered ==
  \A i \in 1..Len(user_data) :
     LET f == user_data[i].filters IN
     /\ (f.price_min # None /\ f.price_max # None) => f.price_min[1] <= f.price_max[1]
     /\ (f.year_min # None /\ f.year_max # None) => f.year_min[1] <= f.year_max[1]

----------------------------------------------------------------------------
\* Properties of the polling pass, continued

\* the listing whose poll the monitor has just left
JustPolled ==
  /\ pc[M] = "nextCar"
  /\ mon.ci >= 1
  /\ mon.ci <= Len(MonUser.monitored_cars)
  /\ <<MonUser.id, MonCar.url>> \in mon.polled

\* C21: every poll attempt of a tracked listing advances its last_check to
\* the time of the attempt, also when the fetch for that listing failed.
\* (Time is counted in fetches of the monitor, so the attempt just left is
\* the one made at the present clock.)
C21_EveryPollAdvancesLastCheck ==
  JustPolled => MonCar.last_check = clock

----------------------------------------------------------------------------
\* Properties of the writes of the main thread

\* what the dialog changes in the profile of u; a user without a profile
\* has the values get_user_data creates
ProfileData(ud, u) == <<CityOf(ud, u), FiltersOf(ud, u), CarsOf(ud, u)>>

Written(u) ==
  /\ file.exists /\ file.complete
  /\ ProfileData(file.data, u) = ProfileData(user_data, u)

\* C22: a step of the dialog that changes the city, a filter or the listings
\* of a profile leads to the write and leaves the session state alone; the
\* state is set and the reply sent only when the file holds the changed
\* profile; when the write fails the handler ends with the state as it was
C22_WriteBeforeReply ==
  /\ [](pc[H] = "finish" => Written(hnd.user))
  /\ [][(\E u \in Users : ProfileData(user_data', u) # ProfileData(user_data, u))
          => (pc'[H] = "s_open" /\ user_states' = user_states)]_vars
  /\ [][(pc[H] = "s_open" /\ pc'[H] = "idle")
          => (user_states' = user_states /\ file' = file)]_vars
  /\ [][(pc[H] # "idle" /\ user_states' # user_states) => pc[H] = "finish"]_vars

\* the write of the chosen city failed: the session still chooses a city
\* and the file does not hold the city
C22_Witness ==
  /\ pc[H] = "idle"
  /\ hist.text = CityMoscow /\ hist.state = STATE_CHOOSING_CITY
  /\ user_states[hist.user] = STATE_CHOOSING_CITY
  /\ CityOf(user_data, hist.user) = Some(CityMoscow)
  /\ ~Written(hist.user)

----------------------------------------------------------------------------
\* Frame properties of the listings

\* the fields a listing is created with and keeps
Created(car) ==
  <<car.url, car.title, car.initial_price, car.site, car.year, car.mileage,
    car.location, car.added_date>>

\* a step of the monitor thread
MonitorStep == pc'[M] # pc[M] \/ mon' # mon \/ sv'[M] # sv[M]

\* C24: a listing stays where it is in its user's listings and keeps the
\* initial_price, title, site, year, mileage, location and added_date it was
\* created with; a step of the pass changes nothing of the store but price,
\* last_check and price_history of the listing it polls; a step of the
\* dialog changes no field of an existing listing
C24_CreatedFieldsFrozen ==
  /\ [][\A i \in 1..Len(user_data) :
          /\ Len(user_data') >= i
          /\ user_data'[i].id = user_data[i].id
          /\ \A j \in 1..Len(user_data[i].monitored_cars) :
               /\ Len(user_data'[i].monitored_cars) >= j
               /\ Created(user_data'[i].monitored_cars[j])
                    = Created(user_data[i].monitored_cars[j])]_vars
  /\ [][MonitorStep =>
          /\ Len(user_data') = Len(user_data)
          /\ \A i \in 1..Len(user_data) :
               /\ Len(user_data'[i].monitored_cars) = Len(user_data[i].monitored_cars)
               /\ user_data'[i].city = user_data[i].city
               /\ user_data'[i].filters = user_data[i].filters
               /\ user_data'[i].price_threshold = user_data[i].price_threshold
               /\ \A j \in 1..Len(user_data[i].monitored_cars) :
                    (user_data'[i].monitored_cars[j] # user_data[i].monitored_cars[j])
                      => (i = mon.ui /\ j = mon.ci)]_vars
  /\ [][~MonitorStep =>
          \A i \in 1..Len(user_data) :
             \A j \in 1..Len(user_data[i].monitored_cars) :
                user_data'[i].monitored_cars[j] = user_data[i].monitored_cars[j]]_vars

\* a listing created at time 0 with price 1,000,000 whose price a later pass
\* has changed, while its user has added a second listing
C24_Witness ==
  \E i \in 1..Len(user_data) :
     /\ Len(user_data[i].monitored_cars) = 2
     /\ LET car == user_data[i].monitored_cars[1]
        IN /\ Created(car) = Created(SeedCar)
           /\ car.price = 900000
           /\ Len(car.price_history) = 2
           /\ car.last_check > car.added_date

\* what a fetch of the listing would return at its present price
SnapOf(car) ==
  [title |-> car.title, price |-> car.price, site |-> car.site, year |-> car.year,
   mileage |-> car.mileage, location |-> car.location]

\* C25: the set of tracked listings changes only by the add of a fetched URL;
\* a step that changes a user's filters leaves every listing as it is; a
\* step of the pass leaves the set of listings and the filters as they are;
\* the pass fetches the next listing whatever the filters are, polls every
\* listing tracked at its start, and applies and notifies an accepted change
\* of a listing that the filters of its user would refuse
C25_TrackedSetOnlyGrowsByAdd ==
  /\ [][Listings(user_data') # Listings(user_data) =>
          /\ pc[H] = "url_fetch" /\ hist'.fetch = "added"
          /\ Listings(user_data') = Listings(user_data) \cup {<<hnd.user, hnd.url>>}]_vars
  /\ [][(\E u \in Users : FiltersOf(user_data', u) # FiltersOf(user_data, u)) =>
          \A u \in Users : CarsOf(user_data', u) = CarsOf(user_data, u)]_vars
  /\ [][MonitorStep =>
          /\ Listings(user_data') = Listings(user_data)
          /\ \A u \in Users : FiltersOf(user_data', u) = FiltersOf(user_data, u)]_vars
  /\ [][(/\ MonitorStep /\ pc[M] = "nextCar"
         /\ Len(MonUser.monitored_cars) = mon.cn /\ mon.ci < mon.cn) =>
           pc'[M] = "fetch"]_vars
  /\ [](pc[M] = "s_open" => mon.at_start \subseteq mon.polled)
  /\ []((PollDone /\ Accepted /\ ~Matches(SnapOf(MonCar), MonUser.filters)) =>
          /\ MonCar.price = mon.new_price
          /\ HistoryGrewByNewPrice
          /\ outbox # <<>>
          /\ Last(outbox).user = MonUser.id /\ Last(outbox).url = MonCar.url
          /\ Last(outbox).new = mon.new_price)

\* a pass has changed the price of a listing of 2015 and notified its user,
\* whose filters ask for 2016 or later
C25_Witness ==
  /\ PollDone /\ Accepted
  /\ MonUser.filters.year_min = Some(2016)
  /\ MonCar.year = Some(2015)
  /\ ~Matches(SnapOf(MonCar), MonUser.filters)
  /\ MonCar.price = 900000
  /\ outbox # <<>> /\ Last(outbox).url = MonCar.url /\ Last(outbox).new = 900000

\* the listing <<user id, url>> in the store
CarOf(ud, p) == CarsOf(ud, p[1])[CarIdx(CarsOf(ud, p[1]), p[2])]

\* the last notification handed to send_message for the listing p
LastNote(p) ==
  outbox[CHOOSE k \in DOMAIN outbox :
           /\ outbox[k].user = p[1] /\ outbox[k].url = p[2]
           /\ IsLastNote(k)]

\* C26: handing the notification to send_message is followed by the pause
\* and the next listing whether or not it was delivered, and changes nothing
\* of the store; after a failed delivery no notification of that listing is
\* sent again in the pass, the listing keeps the new price as price and as
\* last entry of its history, and a pass that ends has polled every listing
\* tracked at its start
C26_FailedDeliveryKeepsChange ==
  /\ [][(MonitorStep /\ pc[M] = "notify") =>
          /\ pc'[M] = "sleep"
          /\ Len(outbox') = Len(outbox) + 1
          /\ user_data' = user_data]_vars
  /\ [][(MonitorStep /\ PollDone /\ ~mon.delivered) =>
          /\ pc'[M] = "nextCar"
          /\ outbox' = outbox
          /\ user_data' = user_data]_vars
  /\ [][outbox' # outbox => <<MonUser.id, MonCar.url>> \notin mon.undelivered]_vars
  /\ [](\A p \in mon.undelivered :
          /\ Tracks(user_data, p[1], p[2])
          /\ CarOf(user_data, p).price = LastNote(p).new
          /\ Last(CarOf(user_data, p).price_history).price = LastNote(p).new
          /\ Len(CarOf(user_data, p).price_history) >= 2)
  /\ [](pc[M] = "s_open" => mon.at_start \subseteq mon.polled)

\* the pass has ended: the notification of the first user's listing, now at
\* 900,000, was not delivered and the second user's listing was polled after it
C26_Witness ==
  /\ pc[M] = "s_open"
  /\ <<1, UrlA>> \in mon.undelivered
  /\ <<2, UrlB>> \in mon.polled
  /\ user_data[1].monitored_cars[1].price = 900000
  /\ Last(user_data[1].monitored_cars[1].price_history).price = 900000
  /\ Len(outbox) = 1

\* the price last accepted for the listing being polled: the last entry of
\* the history it had when its price was read
LastAccepted == Last(mon.pre_history).price

\* the snapshot is within the threshold of the previous observation
DriftFromLastSeen ==
  /\ mon.last_seen # None
  /\ mon.last_seen[1] # LastAccepted
  /\ ~ThresholdReached(mon.last_seen[1], mon.new_price, MonUser.price_threshold)

\* C27: the old price of a poll is the last accepted price of the listing,
\* and the change is decided against it: a snapshot within the threshold of
\* the previous observation and at the threshold from the last accepted
\* price is accepted, with the last accepted price as the old price of the
\* notification; one within the threshold of the last accepted price is
\* not, however far it is from the previous observation
C27_DeltaAgainstAcceptedPrice ==
  /\ [](pc[M] \in {"setPrice", "append", "notify", "sleep"} =>
          mon.old_price = LastAccepted)
  /\ []((/\ PollDone /\ DriftFromLastSeen
         /\ LastAccepted # 0
         /\ ThresholdReached(LastAccepted, mon.new_price, MonUser.price_threshold)) =>
           /\ MonCar.price = mon.new_price
           /\ HistoryGrewByNewPrice
           /\ outbox # <<>>
           /\ Last(outbox).url = MonCar.url
           /\ Last(outbox).old = LastAccepted
           /\ Last(outbox).new = mon.new_price)
  /\ []((/\ PollDone /\ mon.last_seen # None
         /\ LastAccepted # 0
         /\ ~ThresholdReached(LastAccepted, mon.new_price, MonUser.price_threshold)) =>
           /\ MonCar.price = LastAccepted
           /\ MonCar.price_history = mon.pre_history)

\* the listing at 1,000,000 was seen at 960,000, which changed nothing, and is
\* now seen at 950,000: the change is accepted and reported as from 1,000,000
C27_Witness ==
  /\ PollDone
  /\ mon.last_seen = Some(960000) /\ mon.new_price = 950000
  /\ LastAccepted = 1000000
  /\ MonCar.price = 950000
  /\ Last(outbox).old = 1000000 /\ Last(outbox).new = 950000

\* C28: the poll of a listing whose price is 0 with a non-zero snapshot
\* leaves its price and history as they are and goes on to the next listing;
\* a listing added at price 0 keeps price 0 and its history of one entry, and
\* is never notified; the monitor thread does not end, and a pass that ends
\* has polled every listing tracked at its start
C28_ZeroPriceSkipsListing ==
  /\ [][(MonitorStep /\ pc[M] = "read" /\ MonCar.price = 0 /\ mon.new_price # 0) =>
          /\ pc'[M] = "nextCar"
          /\ user_data'[mon.ui].monitored_cars[mon.ci].price = 0
          /\ user_data'[mon.ui].monitored_cars[mon.ci].price_history
               = MonCar.price_history
          /\ outbox' = outbox]_vars
  /\ [](\A i \in 1..Len(user_data) : \A j \in 1..Len(user_data[i].monitored_cars) :
          LET car == user_data[i].monitored_cars[j]
          IN car.initial_price = 0 =>
               /\ car.price = 0
               /\ car.price_history = <<[price |-> 0, date |-> car.added_date]>>)
  /\ [](\A k \in DOMAIN outbox : outbox[k].old # 0 /\ outbox[k].url # UrlB)
  /\ [](pc[M] # "dead")
  /\ [](pc[M] = "s_open" => mon.at_start \subseteq mon.polled)

\* second pass: the listing of price 0, seen at 900,000 in this poll, is left
\* at 0; the listing after it was polled in the first pass, after the first
\* poll of the listing of price 0, and took the price 900,000
C28_Witness ==
  /\ JustPolled
  /\ MonCar.url = UrlB /\ MonCar.price = 0 /\ Len(MonCar.price_history) = 1
  /\ MonCar.last_check = 4
  /\ prev[1][UrlB] = Some(900000)
  /\ user_data[1].monitored_cars[2].last_check = 3
  /\ user_data[1].monitored_cars[2].price = 900000

============================================================================
